---- MODULE Spec2Model ----
(***************************************************************************)
(* Sigma firmware (apps/firmware): startup safety report and the debounced *)
(* button -> status LED controller of setup() / loop(); and the earlier    *)
(* image of firmware/, run beside it in SpecPair.                          *)
(*                                                                         *)
(* Voltages and sound levels are C++ floats in the source; here they are   *)
(* integers in thousandths of the unit (85.0 dB = 85000, 3.3 V = 3300), so *)
(* that the comparisons of the source are exact integer comparisons.       *)
(* Times are milliseconds, held in unsigned words of WordBits bits.        *)
(***************************************************************************)
EXTENDS Integers, Sequences, FiniteSets, TLC

VARIABLES
    pc,              \* "boot" before setup() has run, "running" after
    cfg,             \* the sigma::config constants the image was built with
    millis,          \* the hardware millisecond counter read by millis()
    button_pin,      \* electrical level of the button pin (INPUT_PULLUP)
    pin_mode,        \* pinMode() settings of the two pins
    serial_baud,     \* 0 until Serial.begin()
    status_led,      \* level last written to the status LED pin
    serial,          \* the lines written to Serial, oldest first
    last_sample_ms,  \* main.cpp: last_sample_ms
    button_state,    \* main.cpp: button_state
    tick,            \* what the most recent loop() call did (history)
    prev_tick,       \* what the loop() call before that did (history)
    notify_ms,       \* time of the latest "Button state" line, -1 if none (history)
    scen,            \* progress of the run along the scenario-C tick script
    held,            \* the pin has not moved since the last state change
    uptime,          \* milliseconds since power-on, never wrapping (history)
    sample_uptime,   \* uptime at the last sample taken, 0 if none (history)
    fw               \* the state of the firmware/ image (src/firmware) on the
                     \* same pins and clock: its globals, LED, Serial lines

vars == <<pc, cfg, millis, button_pin, pin_mode, serial_baud, status_led,
          serial, last_sample_ms, button_state, tick, prev_tick, notify_ms,
          scen, held, uptime, sample_uptime, fw>>

-----------------------------------------------------------------------------
(* Bounds of the model *)

\* width of `unsigned long` in the model; the clock of Spec stays below 2^WordBits
WordBits == 6
\* the clock of Spec stops advancing here
MaxTime == 32
\* the clock of SpecCfg stops advancing here
MaxTimeCfg == 11
\* SpecWrap starts this long before the clock wraps ...
WrapLead == 12
\* ... and stops advancing the clock this long after the wrap
WrapSlack == 14

-----------------------------------------------------------------------------
(* Arduino levels and unsigned arithmetic *)

LOW == "LOW"
HIGH == "HIGH"
Levels == {LOW, HIGH}

UMod == 2 ^ WordBits

\* a - b on unsigned long
USub(a, b) == ((a - b) + UMod) % UMod

-----------------------------------------------------------------------------
(* config.h *)

kFirmwareVersion == "0.1.0"
kSerialBaudRate == 115200
kRecommendedMaxSplDb == 85000
kAbsoluteMaxSplDb == 94000
kMicBiasMinVolts == 1800
kMicBiasMaxVolts == 3300
kBatteryNominalVolts == 3700
kBatteryLowVolts == 3300
kBatteryCriticalVolts == 3000

ShippedConfig_swapped ==
    [ recommended_max_spl_db |-> kAbsoluteMaxSplDb,
      absolute_max_spl_db    |-> kRecommendedMaxSplDb,
      mic_bias_min_volts     |-> kMicBiasMinVolts,
      mic_bias_max_volts     |-> kMicBiasMaxVolts,
      nominal_volts          |-> kBatteryNominalVolts,
      low_volts              |-> kBatteryLowVolts,
      critical_volts         |-> kBatteryCriticalVolts ]

\* the constants of config.h as shipped
ShippedConfig ==
    [ recommended_max_spl_db |-> kRecommendedMaxSplDb,
      absolute_max_spl_db    |-> kAbsoluteMaxSplDb,
      mic_bias_min_volts     |-> kMicBiasMinVolts,
      mic_bias_max_volts     |-> kMicBiasMaxVolts,
      nominal_volts          |-> kBatteryNominalVolts,
      low_volts              |-> kBatteryLowVolts,
      critical_volts         |-> kBatteryCriticalVolts ]

\* the hardware-safe mic-bias envelope asserted by test_mic_bias_bounds
kMicBiasEnvelopeMin == 1500
kMicBiasEnvelopeMax == 3600

\* values a rebuilt config.h may carry (SpecCfg); each field's set holds the
\* shipped value, and the sets together make every ordering and envelope
\* relation hold in some configurations and fail in others
RecommendedSplValues == {85000, 94000, 95000}
AbsoluteSplValues == {85000, 94000}
MicBiasMinValues == {1000, 1800, 3300}
MicBiasMaxValues == {1800, 3300, 4000}
NominalValues == {3000, 3700}
LowValues == {3000, 3300}
CriticalValues == {3000, 3300}

Configs ==
    [ recommended_max_spl_db : RecommendedSplValues,
      absolute_max_spl_db    : AbsoluteSplValues,
      mic_bias_min_volts     : MicBiasMinValues,
      mic_bias_max_volts     : MicBiasMaxValues,
      nominal_volts          : NominalValues,
      low_volts              : LowValues,
      critical_volts         : CriticalValues ]

-----------------------------------------------------------------------------
(* Serial output *)

Digit(d) == ToString(d % 10)

\* Serial.print(float): two decimals, rounded half up (x is in thousandths)
PrintFloat(x) ==
    LET h == (x + 5) \div 10
    IN  ToString(h \div 100) \o "." \o Digit(h \div 10) \o Digit(h)

kSplWarning == "[safety] Recommended SPL exceeds absolute maximum - check config.h"

enforce_audio_safety_ge(c) ==
    IF c.recommended_max_spl_db >= c.absolute_max_spl_db
    THEN <<kSplWarning>>
    ELSE <<>>

\* the lines enforce_audio_safety() prints for configuration c
enforce_audio_safety(c) ==
    IF c.recommended_max_spl_db > c.absolute_max_spl_db
    THEN <<kSplWarning>>
    ELSE <<>>

\* the lines report_safety_callouts() prints for configuration c
report_safety_callouts(c) ==
    << "[safety] Maintain SPL under " \o PrintFloat(c.recommended_max_spl_db)
          \o " dB for extended sessions (absolute max 94 dB).",
       "[safety] Keep mic bias between " \o PrintFloat(c.mic_bias_min_volts)
          \o " V and " \o PrintFloat(c.mic_bias_max_volts) \o " V.",
       "[safety] Stop use if battery drops below " \o PrintFloat(c.low_volts)
          \o " V (critical at 3.0 V)." >>

kPressedLine == "Button state: " \o "pressed"
kReleasedLine == "Button state: " \o "released"
RuntimeLines == {kPressedLine, kReleasedLine}

StateLine_constant(pressed) == kPressedLine

\* the Serial line of a state change
StateLine(pressed) == IF pressed THEN kPressedLine ELSE kReleasedLine

LedLevel_inverted(pressed) == IF pressed THEN LOW ELSE HIGH

\* the LED level of a state change
LedLevel(pressed) == IF pressed THEN HIGH ELSE LOW

RECURSIVE Count(_, _)
\* number of entries of sequence s that are in set S
Count(s, S) ==
    IF s = <<>> THEN 0
    ELSE (IF Head(s) \in S THEN 1 ELSE 0) + Count(Tail(s), S)

-----------------------------------------------------------------------------
(* The controller *)

kDebounceDelayMs == 10

Ignored_short(now, last) == USub(now, last) < kDebounceDelayMs - 1

Ignored_never(now, last) == FALSE

Ignored_always(now, last) == TRUE

Ignored_sum(now, last) == now < (last + kDebounceDelayMs) % UMod

\* loop(): the early return
Ignored(now, last) == USub(now, last) < kDebounceDelayMs

Pressed_high(level) == level = HIGH

\* digitalRead(kButtonPin) == LOW
Pressed(level) == level = LOW

Edge_always(pressed, state) == TRUE

\* loop(): pressed != button_state
Edge(pressed, state) == pressed # state

\* the pin is pressed when it is pulled to ground
RawPressed == button_pin = LOW

\* the record of one loop() call: its clock reading, the pin at that moment,
\* whether it sampled the pin, whether button_state changed, the LED writes
\* and the Serial lines it made (n = 0: no call yet)
TickRec(now, raw, read, changed, writes, lines) ==
    [n |-> 1, now |-> now, raw |-> raw, read |-> read, changed |-> changed,
     writes |-> writes, lines |-> lines]

NoTick == [n |-> 0, now |-> 0, raw |-> FALSE, read |-> FALSE, changed |-> FALSE,
           writes |-> <<>>, lines |-> <<>>]

\* scenario C, shifted by t0: (raw=true, t0), (raw=true, t0+5), (raw=false, t0+20)
ScenRaw == <<TRUE, TRUE, FALSE>>
ScenAt == <<0, 5, 20>>
ScenOff == [k |-> 4, t0 |-> 0]

ScenNext(s, raw, now) ==
    IF s.k = 0
    THEN IF raw = ScenRaw[1] THEN [k |-> 1, t0 |-> now] ELSE ScenOff
    ELSE IF s.k < 3 /\ raw = ScenRaw[s.k + 1] /\ now = s.t0 + ScenAt[s.k + 1]
         THEN [k |-> s.k + 1, t0 |-> s.t0]
         ELSE ScenOff

-----------------------------------------------------------------------------
(* firmware/src/main.cpp, the image without config.h *)

SIGMA_FIRMWARE_VERSION == "0.1.0"
FwDebounceDelayMs == 10

\* what one loop() call of firmware/ did
FwTick(read, writes, lines) == [read |-> read, writes |-> writes, lines |-> lines]

\* firmware/: the globals at power-on
FwInit ==
    [ last_sample_ms |-> 0,
      button_state   |-> FALSE,
      status_led     |-> LOW,
      pin_mode       |-> [led |-> "UNSET", button |-> "UNSET"],
      serial_baud    |-> 0,
      serial         |-> <<>>,
      tick           |-> FwTick(FALSE, <<>>, <<>>) ]

\* firmware/: setup()
FwSetupResult(f) ==
    [f EXCEPT !.pin_mode = [led |-> "OUTPUT", button |-> "INPUT_PULLUP"],
              !.status_led = LOW,
              !.serial_baud = 115200,
              !.serial = @ \o << "",
                                 "Sigma firmware ready (v" \o SIGMA_FIRMWARE_VERSION \o ")",
                                 "Press the button to toggle the status LED" >>]

FwIgnored_le(now, last) == USub(now, last) <= FwDebounceDelayMs

\* firmware/: loop(), the early return
FwIgnored(now, last) == USub(now, last) < FwDebounceDelayMs

\* firmware/: loop(), one call at clock value now with the pin at level
FwLoopResult(f, now, level) ==
    IF FwIgnored(now, f.last_sample_ms)
    THEN [f EXCEPT !.tick = FwTick(FALSE, <<>>, <<>>)]
    ELSE LET pressed == (level = LOW)
             led == IF pressed THEN HIGH ELSE LOW
             line == "Button state: " \o (IF pressed THEN "pressed" ELSE "released")
         IN  IF pressed # f.button_state
             THEN [f EXCEPT !.last_sample_ms = now,
                            !.button_state = pressed,
                            !.status_led = led,
                            !.serial = Append(@, line),
                            !.tick = FwTick(TRUE, <<led>>, <<line>>)]
             ELSE [f EXCEPT !.last_sample_ms = now,
                            !.tick = FwTick(TRUE, <<>>, <<>>)]

Init ==
    /\ pc = "boot"
    /\ cfg = ShippedConfig
    /\ millis = 0
    /\ button_pin = HIGH
    /\ pin_mode = [led |-> "UNSET", button |-> "UNSET"]
    /\ serial_baud = 0
    /\ status_led = LOW
    /\ serial = <<>>
    /\ last_sample_ms = 0
    /\ button_state = FALSE
    /\ tick = NoTick
    /\ prev_tick = NoTick
    /\ notify_ms = -1
    /\ scen = [k |-> 0, t0 |-> 0]
    /\ held = FALSE
    /\ uptime = 0
    /\ sample_uptime = 0
    /\ fw = FwInit

InitCfg ==
    /\ pc = "boot"
    /\ cfg \in Configs
    /\ millis = 0
    /\ button_pin = HIGH
    /\ pin_mode = [led |-> "UNSET", button |-> "UNSET"]
    /\ serial_baud = 0
    /\ status_led = LOW
    /\ serial = <<>>
    /\ last_sample_ms = 0
    /\ button_state = FALSE
    /\ tick = NoTick
    /\ prev_tick = NoTick
    /\ notify_ms = -1
    /\ scen = [k |-> 0, t0 |-> 0]
    /\ held = FALSE
    /\ uptime = 0
    /\ sample_uptime = 0
    /\ fw = FwInit

Setup_halting ==
    /\ pc = "boot"
    /\ pc' = IF enforce_audio_safety(cfg) = <<>> THEN "running" ELSE "halted"
    /\ pin_mode' = [led |-> "OUTPUT", button |-> "INPUT_PULLUP"]
    /\ status_led' = LOW
    /\ serial_baud' = kSerialBaudRate
    /\ serial' = serial
                 \o << "",
                       "Sigma firmware ready (v" \o kFirmwareVersion \o ")",
                       "Press the button to toggle the status LED" >>
                 \o enforce_audio_safety(cfg)
                 \o report_safety_callouts(cfg)
    /\ UNCHANGED <<cfg, millis, button_pin, last_sample_ms, button_state,
                   tick, prev_tick, notify_ms, scen, held,
                   uptime, sample_uptime>>

Setup_reordered ==
    /\ pc = "boot"
    /\ pc' = "running"
    /\ pin_mode' = [led |-> "OUTPUT", button |-> "INPUT_PULLUP"]
    /\ status_led' = LOW
    /\ serial_baud' = kSerialBaudRate
    /\ serial' = serial
                 \o << "",
                       "Sigma firmware ready (v" \o kFirmwareVersion \o ")",
                       "Press the button to toggle the status LED" >>
                 \o report_safety_callouts(cfg)
                 \o enforce_audio_safety(cfg)
    /\ UNCHANGED <<cfg, millis, button_pin, last_sample_ms, button_state,
                   tick, prev_tick, notify_ms, scen, held,
                   uptime, sample_uptime>>

Setup_sampling ==
    /\ pc = "boot"
    /\ pc' = "running"
    /\ pin_mode' = [led |-> "OUTPUT", button |-> "INPUT_PULLUP"]
    /\ button_state' = Pressed(button_pin)
    /\ status_led' = LedLevel(Pressed(button_pin))
    /\ serial_baud' = kSerialBaudRate
    /\ serial' = serial
                 \o << "",
                       "Sigma firmware ready (v" \o kFirmwareVersion \o ")",
                       "Press the button to toggle the status LED" >>
                 \o enforce_audio_safety(cfg)
                 \o report_safety_callouts(cfg)
    /\ UNCHANGED <<cfg, millis, button_pin, last_sample_ms,
                   tick, prev_tick, notify_ms, scen, held,
                   uptime, sample_uptime>>

\* power-on was UMod - WrapLead milliseconds ago and setup() has not run yet
InitWrap ==
    /\ pc = "boot"
    /\ cfg = ShippedConfig
    /\ millis = UMod - WrapLead
    /\ button_pin = HIGH
    /\ pin_mode = [led |-> "UNSET", button |-> "UNSET"]
    /\ serial_baud = 0
    /\ status_led = LOW
    /\ serial = <<>>
    /\ last_sample_ms = 0
    /\ button_state = FALSE
    /\ tick = NoTick
    /\ prev_tick = NoTick
    /\ notify_ms = -1
    /\ scen = [k |-> 0, t0 |-> 0]
    /\ held = FALSE
    /\ uptime = UMod - WrapLead
    /\ sample_uptime = 0
    /\ fw = FwInit

\* setup()
Setup ==
    /\ pc = "boot"
    /\ pc' = "running"
    /\ pin_mode' = [led |-> "OUTPUT", button |-> "INPUT_PULLUP"]
    /\ status_led' = LOW
    /\ serial_baud' = kSerialBaudRate
    /\ serial' = serial
                 \o << "",
                       "Sigma firmware ready (v" \o kFirmwareVersion \o ")",
                       "Press the button to toggle the status LED" >>
                 \o enforce_audio_safety(cfg)
                 \o report_safety_callouts(cfg)
    /\ UNCHANGED <<cfg, millis, button_pin, last_sample_ms, button_state,
                   tick, prev_tick, notify_ms, scen, held,
                   uptime, sample_uptime>>

\* loop(), one call
Loop ==
    /\ pc = "running"
    /\ LET now == millis
       IN  /\ IF Ignored(now, last_sample_ms)
              THEN /\ tick' = TickRec(now, RawPressed, FALSE, FALSE, <<>>, <<>>)
                   /\ UNCHANGED <<last_sample_ms, button_state, status_led, serial,
                                  notify_ms, held, sample_uptime>>
              ELSE LET pressed == Pressed(button_pin)
                   IN  /\ last_sample_ms' = now
                       /\ sample_uptime' = uptime
                       /\ IF Edge(pressed, button_state)
                          THEN /\ button_state' = pressed
                               /\ status_led' = LedLevel(pressed)
                               /\ serial' = Append(serial, StateLine(pressed))
                               /\ notify_ms' = now
                               /\ held' = TRUE
                               /\ tick' = TickRec(now, RawPressed, TRUE,
                                                  pressed # button_state,
                                                  <<LedLevel(pressed)>>,
                                                  <<StateLine(pressed)>>)
                          ELSE /\ UNCHANGED <<button_state, status_led, serial,
                                              notify_ms, held>>
                               /\ tick' = TickRec(now, RawPressed, TRUE, FALSE,
                                                  <<>>, <<>>)
           /\ scen' = ScenNext(scen, RawPressed, now)
    /\ prev_tick' = tick
    /\ UNCHANGED <<pc, cfg, millis, button_pin, pin_mode, serial_baud, uptime>>

\* a millisecond passes (up to maxT since power-on): the counter read by
\* millis() is an unsigned long and wraps
AdvanceClock(maxT) ==
    /\ uptime < maxT
    /\ uptime' = uptime + 1
    /\ millis' = (millis + 1) % UMod
    /\ UNCHANGED <<pc, cfg, button_pin, pin_mode, serial_baud, status_led, serial,
                   last_sample_ms, button_state, tick, prev_tick, notify_ms,
                   scen, held, sample_uptime, fw>>

\* the user presses or releases the button
ButtonChange ==
    /\ button_pin' = IF button_pin = LOW THEN HIGH ELSE LOW
    /\ held' = FALSE
    /\ UNCHANGED <<pc, cfg, millis, pin_mode, serial_baud, status_led, serial,
                   last_sample_ms, button_state, tick, prev_tick, notify_ms, scen,
                   uptime, sample_uptime, fw>>

\* the apps/firmware image alone: the firmware/ image is not running
AppSetup == Setup /\ UNCHANGED fw
AppLoop == Loop /\ UNCHANGED fw

\* both images side by side on the same pins and clock, called together
PairSetup == Setup /\ fw' = FwSetupResult(fw)
PairLoop == Loop /\ fw' = FwLoopResult(fw, millis, button_pin)

Next == AppSetup \/ AppLoop \/ AdvanceClock(MaxTime) \/ ButtonChange

NextPair == PairSetup \/ PairLoop \/ AdvanceClock(MaxTime) \/ ButtonChange

SpecPair == Init /\ [][NextPair]_vars

Spec == Init /\ [][Next]_vars

\* the Arduino core calls setup() and then loop() for ever, and the
\* millisecond timer keeps counting (here: up to the bound MaxTime)
SpecLive ==
    /\ Init /\ [][Next]_vars
    /\ WF_vars(AppSetup) /\ WF_vars(AppLoop) /\ WF_vars(AdvanceClock(MaxTime))

NextWrap == AppSetup \/ AppLoop \/ AdvanceClock(UMod + WrapSlack) \/ ButtonChange

\* the run around the moment the millisecond counter wraps
SpecWrap == InitWrap /\ [][NextWrap]_vars

NextCfg == AppSetup \/ AppLoop \/ AdvanceClock(MaxTimeCfg) \/ ButtonChange

SpecCfg == InitCfg /\ [][NextCfg]_vars

-----------------------------------------------------------------------------
(* Properties *)

\* number of "Button state" lines written so far
Notifications ==
    Count(serial, {"Button state: pressed", "Button state: released"})

\* C1 as claimed (scenario C at the stated times): when the ticks so far are
\* exactly (raw=true, t=0), (raw=true, t=5), (raw=false, t=20), the first one
\* switches to Pressed and notifies, the second is ignored, the third switches
\* to Released and notifies, 2 notifications in total.
C1_ScenarioC_AsStated ==
    (scen.k \in 1..3 /\ scen.t0 = 0) =>
        /\ scen.k = 1 => /\ tick.changed /\ button_state
                         /\ tick.lines = <<"Button state: pressed">>
                         /\ Notifications = 1
        /\ scen.k = 2 => /\ ~tick.read /\ tick.lines = <<>>
                         /\ button_state /\ Notifications = 1
        /\ scen.k = 3 => /\ tick.changed /\ ~button_state
                         /\ tick.lines = <<"Button state: released">>
                         /\ Notifications = 2

\* C1, amended: the scenario-C outcome (Pressed + notification, ignored,
\* Released + notification, 2 notifications) holds when the three ticks come
\* at t0, t0+5, t0+20 with t0 >= 10, the first tick being the first call of
\* loop(); at the stated times t = 0, 5, 20 the first two ticks are ignored
\* and the third samples without an edge, 0 notifications in total.
C1_ScenarioC_Shifted ==
    /\ (scen.k \in 1..3 /\ scen.t0 >= 10) =>
        /\ scen.k = 1 => /\ tick.changed /\ button_state
                         /\ tick.lines = <<"Button state: pressed">>
                         /\ Notifications = 1
        /\ scen.k = 2 => /\ ~tick.read /\ tick.lines = <<>>
                         /\ button_state /\ Notifications = 1
        /\ scen.k = 3 => /\ tick.changed /\ ~button_state
                         /\ tick.lines = <<"Button state: released">>
                         /\ Notifications = 2
    /\ (scen.k \in 1..3 /\ scen.t0 = 0) =>
        /\ tick.read = (scen.k = 3)
        /\ ~tick.changed /\ ~button_state
        /\ tick.lines = <<>> /\ Notifications = 0

C1_Witness ==
    /\ scen.k = 3 /\ scen.t0 = 10
    /\ tick.now = 30 /\ ~button_state /\ Notifications = 2

\* C2: a loop() call made less than 10 ms after last_sample_ms does not read
\* the pin, leaves last_sample_ms, button_state, the LED and Serial as they
\* were, writes no output and prints no line.
C2_IgnoredUnchanged ==
    [][(Loop /\ millis - last_sample_ms < 10) =>
            /\ ~tick'.read
            /\ tick'.writes = <<>> /\ tick'.lines = <<>>
            /\ UNCHANGED <<last_sample_ms, button_state, status_led, serial>>]_vars

C2_Witness ==
    /\ tick.n = 1 /\ ~tick.read
    /\ last_sample_ms >= 10 /\ tick.now - last_sample_ms = 9
    /\ tick.raw # button_state

\* C3: a loop() call made at least 10 ms after last_sample_ms whose sample
\* (pressed iff the pin is LOW) differs from button_state sets last_sample_ms
\* to now and button_state to the sample, writes the LED once (HIGH when
\* pressed, LOW when released) and prints one line naming the new state; and
\* every loop() call adds one "Button state" line if it changes button_state
\* and none otherwise.
C3_AcceptedEdge ==
    [][Loop =>
        /\ (millis - last_sample_ms >= 10 /\ (button_pin = LOW) # button_state) =>
                LET pressed == (button_pin = LOW)
                    level == IF pressed THEN "HIGH" ELSE "LOW"
                    line == IF pressed THEN "Button state: pressed"
                                       ELSE "Button state: released"
                IN  /\ last_sample_ms' = millis
                    /\ button_state' = pressed
                    /\ tick'.read
                    /\ tick'.writes = <<level>>
                    /\ status_led' = level
                    /\ tick'.lines = <<line>>
                    /\ serial' = Append(serial, line)
        /\ Notifications' - Notifications
              = (IF button_state' # button_state THEN 1 ELSE 0)]_vars

C3_Witness ==
    /\ tick.changed /\ ~button_state
    /\ tick.lines = <<"Button state: released">>
    /\ tick.writes = <<"LOW">> /\ status_led = "LOW"
    /\ Notifications = 2

\* C4: a loop() call made at least 10 ms after last_sample_ms whose sample
\* equals button_state sets last_sample_ms to now and changes nothing else:
\* no LED write, no line.
C4_AcceptedNonEdge ==
    [][(Loop /\ millis - last_sample_ms >= 10 /\ (button_pin = LOW) = button_state) =>
            /\ last_sample_ms' = millis
            /\ tick'.read
            /\ tick'.writes = <<>> /\ tick'.lines = <<>>
            /\ UNCHANGED <<button_state, status_led, serial>>]_vars

C4_Witness ==
    /\ tick.read /\ ~tick.changed /\ tick.raw /\ button_state
    /\ last_sample_ms = tick.now /\ tick.now - prev_tick.now >= 10
    /\ status_led = "HIGH" /\ Notifications = 1

\* two loop() calls in a row that saw the same pin level less than 10 ms apart
TwoCloseTicks ==
    /\ prev_tick.n = 1 /\ tick.n = 1
    /\ tick.raw = prev_tick.raw
    /\ tick.now - prev_tick.now < 10

StateChanges(t) == IF t.changed THEN 1 ELSE 0

\* C5 as claimed: two loop() calls in a row with the same raw input and less
\* than 10 ms apart change the state at most once in total, and the second
\* call writes no output.
C5_Idempotence_AsStated ==
    TwoCloseTicks =>
        /\ StateChanges(prev_tick) + StateChanges(tick) <= 1
        /\ tick.writes = <<>>

\* C5, amended: two loop() calls in a row with the same raw input and less
\* than 10 ms apart change the state at most once in total; if the first of
\* them took a sample, the second is ignored and writes no output (if the
\* first was ignored, the second may be the one that samples and writes).
C5_Idempotence ==
    TwoCloseTicks =>
        /\ StateChanges(prev_tick) + StateChanges(tick) <= 1
        /\ prev_tick.read => (~tick.read /\ tick.writes = <<>> /\ tick.lines = <<>>)

C5_Witness ==
    /\ TwoCloseTicks
    /\ prev_tick.read /\ prev_tick.changed /\ ~tick.read
    /\ tick.now - prev_tick.now = 9

\* C6: with the clock never going back, a sample is taken only 10 ms or more
\* after the previous one (last_sample_ms), lines are printed only by calls
\* that take a sample, and a "Button state" line comes 10 ms or more after
\* the one before it.
C6_MinSpacing ==
    [][Loop =>
        /\ tick'.lines # <<>> => tick'.read
        /\ last_sample_ms' # last_sample_ms => tick'.read
        /\ tick'.read =>
              /\ last_sample_ms' = millis
              /\ millis - last_sample_ms >= 10
              /\ (tick'.lines # <<>> /\ notify_ms >= 0) => millis - notify_ms >= 10]_vars

C6_Witness ==
    /\ tick.read /\ prev_tick.read
    /\ tick.now - prev_tick.now = 10
    /\ tick.changed /\ prev_tick.changed
    /\ notify_ms = tick.now /\ Notifications = 2

\* C7: while the pin stays at the value button_state last changed to, no
\* further loop() call changes the state, writes the LED or prints a line,
\* however the calls are spaced.
C7_EdgeTriggered ==
    [][(Loop /\ held) =>
            /\ ~tick'.changed
            /\ tick'.writes = <<>> /\ tick'.lines = <<>>
            /\ UNCHANGED <<button_state, status_led, serial>>]_vars

C7_Witness ==
    /\ held /\ tick.read /\ ~tick.changed
    /\ prev_tick.changed /\ prev_tick.raw = tick.raw
    /\ tick.now - prev_tick.now > 10

-----------------------------------------------------------------------------
(* Properties of the startup report (SpecCfg) *)

SplWarnings ==
    Count(serial, {"[safety] Recommended SPL exceeds absolute maximum - check config.h"})

\* lines of the report that are neither the banner, the usage hint, the
\* informational lines, the SPL warning nor a runtime line
OtherWarnings ==
    Len(serial)
    - Count(serial, {"", "Sigma firmware ready (v0.1.0)",
                     "Press the button to toggle the status LED"})
    - Count(serial, {report_safety_callouts(cfg)[i] : i \in 1..3})
    - SplWarnings - Notifications

MicBiasOK(c) ==
    /\ c.mic_bias_min_volts < c.mic_bias_max_volts
    /\ c.mic_bias_min_volts >= kMicBiasEnvelopeMin
    /\ c.mic_bias_max_volts <= kMicBiasEnvelopeMax

BatteryOK(c) ==
    /\ c.critical_volts < c.low_volts
    /\ c.low_volts <= c.nominal_volts

SplOK(c) == c.recommended_max_spl_db <= c.absolute_max_spl_db

\* C8: after setup() the report holds no SPL warning line when
\* recommended_max_spl_db <= absolute_max_spl_db (equality included) and
\* exactly one when recommended_max_spl_db > absolute_max_spl_db.
C8_SplCheck ==
    pc = "running" =>
        SplWarnings = (IF cfg.recommended_max_spl_db > cfg.absolute_max_spl_db
                       THEN 1 ELSE 0)

C8_Witness ==
    /\ pc = "running"
    /\ cfg.recommended_max_spl_db = cfg.absolute_max_spl_db
    /\ SplWarnings = 0

\* C9: after setup() the report holds no mic-bias warning when
\* mic_bias_min_volts < mic_bias_max_volts with both in [1.5 V, 3.6 V], and a
\* mic-bias warning when the ordering or the envelope is violated.
C9_MicBiasReported ==
    pc = "running" =>
        /\ MicBiasOK(cfg) /\ BatteryOK(cfg) => OtherWarnings = 0
        /\ ~MicBiasOK(cfg) => OtherWarnings >= 1

\* C10: after setup() the report holds exactly one warning line for each of
\* the three invariants (SPL ordering, mic-bias ordering and envelope,
\* battery ordering) that the configuration violates.
C10_EveryViolationReported ==
    pc = "running" =>
        /\ SplWarnings = (IF SplOK(cfg) THEN 0 ELSE 1)
        /\ OtherWarnings = (IF MicBiasOK(cfg) THEN 0 ELSE 1)
                           + (IF BatteryOK(cfg) THEN 0 ELSE 1)


-----------------------------------------------------------------------------
(* Startup and running (SpecCfg, Spec) *)

\* C11: whatever the configuration, setup() ends in the running state after
\* printing its SPL warning (one line iff recommended > absolute, as with
\* recommended = 95.0, absolute = 94.0), the running state is never left, and
\* every loop() call does what the controller does under a valid
\* configuration: it depends on the clock, the pin, last_sample_ms and
\* button_state alone.
C11_NonFatal ==
    [][/\ pc = "boot" => pc' \in {"boot", "running"}
       /\ pc = "running" => pc' = "running"
       /\ (pc = "boot" /\ pc' = "running") =>
             SplWarnings' = (IF cfg.recommended_max_spl_db > cfg.absolute_max_spl_db
                             THEN 1 ELSE 0)
       /\ Loop =>
             LET taken == millis - last_sample_ms >= 10
                 pressed == (button_pin = LOW)
                 edge == taken /\ pressed # button_state
                 level == IF pressed THEN "HIGH" ELSE "LOW"
                 line == IF pressed THEN "Button state: pressed"
                                    ELSE "Button state: released"
             IN  /\ last_sample_ms' = (IF taken THEN millis ELSE last_sample_ms)
                 /\ button_state' = (IF taken THEN pressed ELSE button_state)
                 /\ status_led' = (IF edge THEN level ELSE status_led)
                 /\ serial' = (IF edge THEN Append(serial, line) ELSE serial)]_vars

C11_Witness ==
    /\ pc = "running"
    /\ cfg.recommended_max_spl_db = 95000 /\ cfg.absolute_max_spl_db = 94000
    /\ SplWarnings = 1
    /\ tick.changed /\ button_state /\ status_led = "HIGH"


\* C12: the shipped configuration has recommended_max_spl_db = 85.0 <=
\* absolute_max_spl_db = 94.0, 1.5 <= mic_bias_min_volts < mic_bias_max_volts
\* <= 3.6 and critical_volts < low_volts <= nominal_volts, and the startup
\* report of the shipped image holds no warning line.
C12_ShippedConfigValid ==
    /\ cfg.recommended_max_spl_db = 85000 /\ cfg.absolute_max_spl_db = 94000
    /\ cfg.recommended_max_spl_db <= cfg.absolute_max_spl_db
    /\ 1500 <= cfg.mic_bias_min_volts
    /\ cfg.mic_bias_min_volts < cfg.mic_bias_max_volts
    /\ cfg.mic_bias_max_volts <= 3600
    /\ cfg.critical_volts < cfg.low_volts
    /\ cfg.low_volts <= cfg.nominal_volts
    /\ pc = "running" =>
          /\ SplWarnings = 0 /\ OtherWarnings = 0
          /\ Len(serial) - Notifications = 6

C12_Witness ==
    /\ pc = "running" /\ cfg = ShippedConfig
    /\ Len(serial) = 6 /\ SplWarnings = 0


\* C13: Serial receives, in this order, a blank line, the "Sigma firmware
\* ready (v0.1.0)" line, the usage hint, then the warning lines (none or
\* more), then the three informational lines, and only after them "Button
\* state" lines; nothing is printed before setup().
C13_ReportOrder ==
    /\ pc = "boot" => serial = <<>>
    /\ pc = "running" =>
          \E k \in 0..3 :
              /\ Len(serial) >= 6 + k
              /\ SubSeq(serial, 1, 3)
                    = << "", "Sigma firmware ready (v0.1.0)",
                         "Press the button to toggle the status LED" >>
              /\ \A i \in 4..(3 + k) :
                    serial[i] = "[safety] Recommended SPL exceeds absolute maximum - check config.h"
              /\ SubSeq(serial, 4 + k, 6 + k) = report_safety_callouts(cfg)
              /\ \A i \in (7 + k)..Len(serial) :
                    serial[i] \in {"Button state: pressed", "Button state: released"}

C13_Witness ==
    /\ pc = "running"
    /\ SplWarnings = 1 /\ serial[4] # report_safety_callouts(cfg)[1]
    /\ Len(serial) = 8 /\ Notifications = 1


\* C14: setup() runs once, before the first loop() call; it writes the LED
\* LOW and leaves last_sample_ms and button_state alone, so the first loop()
\* call finds last_sample_ms = 0, button_state = false and the LED LOW; and
\* last_sample_ms and button_state are changed by loop() only.
C14_InitBeforeTick ==
    [][/\ pc' # pc =>
             /\ pc = "boot" /\ pc' = "running"
             /\ tick.n = 0
             /\ status_led' = "LOW"
             /\ UNCHANGED <<last_sample_ms, button_state>>
       /\ (tick.n = 0 /\ tick'.n = 1) =>
             /\ pc = "running"
             /\ last_sample_ms = 0 /\ button_state = FALSE
             /\ status_led = "LOW"
       /\ <<last_sample_ms, button_state>>' # <<last_sample_ms, button_state>>
             => Loop]_vars

C14_Witness ==
    /\ tick.n = 1 /\ prev_tick.n = 0
    /\ tick.changed /\ tick.now = 10
    /\ last_sample_ms = 10 /\ button_state /\ status_led = "HIGH"


-----------------------------------------------------------------------------
(* Responsiveness (SpecLive) *)

\* the pin shows a value button_state has not taken yet, and the bounded
\* clock can still reach the end of the debounce window
Pending ==
    /\ pc = "running"
    /\ RawPressed # button_state
    /\ last_sample_ms + 10 <= MaxTime

\* button_state and the LED show the value of the pin
CaughtUp ==
    /\ RawPressed = button_state
    /\ (status_led = "HIGH") = button_state

\* C15: with loop() called again and again at arbitrary intervals and the
\* clock advancing, a pin value that differs from button_state is eventually
\* sampled and becomes button_state and the LED level, unless the pin moves
\* back first; and in every running state some later clock value lets a
\* sample through.
C15_Responsive ==
    /\ [](pc = "running" =>
            \E d \in 0..(UMod - 1) : ~Ignored((millis + d) % UMod, last_sample_ms))
    /\ (Pending ~> CaughtUp)

C15_Witness ==
    /\ tick.changed /\ held /\ CaughtUp
    /\ prev_tick.n = 1 /\ ~prev_tick.read /\ prev_tick.raw = tick.raw
    /\ tick.now - prev_tick.now = 3
    /\ last_sample_ms > 10


-----------------------------------------------------------------------------
(* The informational lines (SpecCfg) *)

\* a value in thousandths as the informational lines write the absolute SPL
\* limit ("94") and the critical battery voltage ("3.0")
ShowWhole(x) == ToString(x \div 1000)
ShowOneDecimal(x) == ToString(x \div 1000) \o "." \o ToString((x % 1000) \div 100)

\* the informational lines that restate configuration c
ExpectedCallouts(c) ==
    << "[safety] Maintain SPL under " \o PrintFloat(c.recommended_max_spl_db)
          \o " dB for extended sessions (absolute max "
          \o ShowWhole(c.absolute_max_spl_db) \o " dB).",
       "[safety] Keep mic bias between " \o PrintFloat(c.mic_bias_min_volts)
          \o " V and " \o PrintFloat(c.mic_bias_max_volts) \o " V.",
       "[safety] Stop use if battery drops below " \o PrintFloat(c.low_volts)
          \o " V (critical at " \o ShowOneDecimal(c.critical_volts) \o " V)." >>

\* C16: for every configuration, the informational lines of the startup
\* report show the configuration's own recommended and absolute SPL limits,
\* mic-bias bounds and low and critical battery thresholds.
C16_CalloutsRestateConfig ==
    pc = "running" =>
        \A i \in 1..3 : \E j \in 1..Len(serial) : serial[j] = ExpectedCallouts(cfg)[i]


-----------------------------------------------------------------------------
(* The LED and the sequence of notifications (Spec) *)

\* C17: once setup() has run, between any two calls the status LED is HIGH
\* exactly when button_state is true (Pressed) and LOW exactly when it is
\* false (Released).
C17_LedMirrorsState ==
    pc = "running" =>
        /\ status_led \in {"HIGH", "LOW"}
        /\ (status_led = "HIGH") = button_state

C17_Witness ==
    /\ pc = "running" /\ button_state /\ status_led = "HIGH"
    /\ tick.writes = <<"HIGH">> /\ Notifications = 1

\* the "Button state" lines printed so far, oldest first
NotificationSeq ==
    SelectSeq(serial, LAMBDA l : l \in {"Button state: pressed", "Button state: released"})

\* C18: the "Button state" lines alternate, the first one being "pressed":
\* the odd ones say pressed and the even ones released.
C18_Alternation ==
    \A j \in 1..Len(NotificationSeq) :
        NotificationSeq[j] = (IF j % 2 = 1 THEN "Button state: pressed"
                                           ELSE "Button state: released")

C18_Witness ==
    /\ Len(NotificationSeq) = 3
    /\ tick.lines = <<"Button state: pressed">>


-----------------------------------------------------------------------------
(* The wrap of the millisecond counter (SpecWrap) *)

\* C19: with millis() and last_sample_ms unsigned words of WordBits bits, a
\* loop() call made less than 2^WordBits ms after the last sample takes a
\* sample exactly when 10 ms or more have really passed since that sample,
\* whether or not the counter wrapped in between; the counter is the true
\* time modulo 2^WordBits.
C19_WrapSafe ==
    [][/\ millis = uptime % (2 ^ WordBits)
       /\ (Loop /\ uptime - sample_uptime < 2 ^ WordBits) =>
             /\ tick'.read = (uptime - sample_uptime >= 10)
             /\ tick'.read => (last_sample_ms' = millis /\ sample_uptime' = uptime)
             /\ ~tick'.read => UNCHANGED <<last_sample_ms, button_state, status_led>>]_vars

C19_Witness ==
    /\ uptime > 2 ^ WordBits /\ millis < 10
    /\ tick.read /\ tick.changed /\ tick.now = millis
    /\ prev_tick.read /\ prev_tick.now > tick.now
    /\ tick.now = (prev_tick.now + 10) % (2 ^ WordBits)


-----------------------------------------------------------------------------
(* The two images side by side (SpecPair) *)

\* the "Button state" lines firmware/ has printed so far, oldest first
FwNotificationSeq ==
    SelectSeq(fw.serial, LAMBDA l : l \in {"Button state: pressed", "Button state: released"})

\* C20: fed the same clock values and pin levels, the loop() of firmware/
\* and the loop() of apps/firmware keep the same last_sample_ms and
\* button_state after every call, make the same LED writes and print the
\* same "Button state" lines; their Serial output differs only by the lines
\* apps/firmware adds to the startup report after the usage hint.
C20_SameController ==
    /\ fw.last_sample_ms = last_sample_ms
    /\ fw.button_state = button_state
    /\ fw.status_led = status_led
    /\ tick.n = 1 =>
          /\ fw.tick.read = tick.read
          /\ fw.tick.writes = tick.writes
          /\ fw.tick.lines = tick.lines
    /\ FwNotificationSeq = NotificationSeq
    /\ pc = "boot" => (serial = <<>> /\ fw.serial = <<>>)
    /\ pc = "running" =>
          \E k \in 1..4 :
              /\ Len(serial) = Len(fw.serial) + k
              /\ SubSeq(serial, 1, 3) = SubSeq(fw.serial, 1, 3)
              /\ SubSeq(serial, 4 + k, Len(serial)) = SubSeq(fw.serial, 4, Len(fw.serial))
              /\ \A i \in 4..(3 + k) :
                    serial[i] \notin {"Button state: pressed", "Button state: released"}

C20_Witness ==
    /\ Len(FwNotificationSeq) = 2 /\ Len(fw.serial) = 5 /\ Len(serial) = 8
    /\ fw.tick.lines = <<"Button state: released">>
    /\ fw.tick.writes = <<"LOW">>
    /\ fw.last_sample_ms > 10 /\ ~fw.button_state

====
